---------------------------- MODULE Spec2Model ----------------------------
(* A model of the SSW tracking sync (src/main.py): the matching of a status *)
(* text against the occurrence-code catalog, the mapping of an occurrence   *)
(* code to a shipment status, the extraction of events from a page, and the *)
(* sync_ssw_tracking run over the pending shipments.                        *)
(* Texts are sequences of one-character strings, so that containment,       *)
(* tokenisation, case conversion and length are computed as the code does.  *)
EXTENDS Naturals, Sequences, FiniteSets

VARIABLES
    status_text,       \* scrape_ssw_tracking: the status fragment being matched
    occurrence_codes,  \* the catalog (list of dicts) given to scrape_ssw_tracking
    occurrence_code,   \* the matched code ({} when none)
    best_match_score,  \* the score of the matched code
    event_status,      \* the status mapped from occurrence_code
    mpc,               \* position in the per-event block: "start", "matched", "mapped"
    pc,                \* sync_ssw_tracking: the step the run is at
    pending_shipments, \* the work list get_pending_shipments returned
    idx,               \* the position of the for loop in pending_shipments (1-based)
    tracking_data,     \* what scrape_ssw_tracking returned for the current shipment
    results,           \* the per-shipment results
    returned,          \* the value sync_ssw_tracking returned
    successful,        \* the summary's counts
    no_data,
    failed,
    calls              \* history: the HTTP requests issued so far, with their responses

mvars == <<status_text, occurrence_code, best_match_score, event_status, mpc>>

rvars == <<pc, pending_shipments, idx, tracking_data, results, returned, successful, no_data,
           failed, calls>>

vars == <<occurrence_codes, mvars, rvars>>

-----------------------------------------------------------------------------
(* Bounds of the model.                                                     *)

MaxCatalog == 2

MaxShipments == 2

-----------------------------------------------------------------------------
(* Characters and Python's str methods.                                     *)

LowerAlpha == <<"a", "b", "c", "d", "e", "f", "g", "h", "i", "j", "k", "l", "m", "n", "o", "p",
    "q", "r", "s", "t", "u", "v", "w", "x", "y", "z", "ç", "ã", "ê", "é">>
UpperAlpha == <<"A", "B", "C", "D", "E", "F", "G", "H", "I", "J", "K", "L", "M", "N", "O", "P",
    "Q", "R", "S", "T", "U", "V", "W", "X", "Y", "Z", "Ç", "Ã", "Ê", "É">>
DigitChars == {"0", "1", "2", "3", "4", "5", "6", "7", "8", "9"}

Range(f) == {f[i] : i \in DOMAIN f}

\* the letters' counterparts in the other case
UpperOf == [c \in Range(LowerAlpha) |-> UpperAlpha[CHOOSE i \in DOMAIN LowerAlpha : LowerAlpha[i] = c]]

LowerOf == [c \in Range(UpperAlpha) |-> LowerAlpha[CHOOSE i \in DOMAIN UpperAlpha : UpperAlpha[i] = c]]

\* str.upper(), one character
UpperChar(c) == IF c \in DOMAIN UpperOf THEN UpperOf[c] ELSE c

\* str.lower(), one character
LowerChar(c) == IF c \in DOMAIN LowerOf THEN LowerOf[c] ELSE c

Upper(s) == [i \in 1..Len(s) |-> UpperChar(s[i])]

Lower(s) == [i \in 1..Len(s) |-> LowerChar(s[i])]

\* the regular expressions' \w, \s and \d
WordChars == Range(LowerAlpha) \cup Range(UpperAlpha) \cup DigitChars \cup {"_"}

IsWordChar(c) == c \in WordChars

IsSpace(c) == c \in {" ", "\n", "\t"}

IsDigit(c) == c \in DigitChars

AllSpace(s) == \A i \in 1..Len(s) : IsSpace(s[i])

\* str.strip()
Strip(s) ==
    LET keep == {i \in 1..Len(s) : ~IsSpace(s[i])}
    IN  IF keep = {} THEN <<>>
        ELSE SubSeq(s, CHOOSE i \in keep : \A j \in keep : i <= j,
                       CHOOSE i \in keep : \A j \in keep : j <= i)

\* Python's `sub in s` on strings
Contains(sub, s) ==
    \E i \in 0..(Len(s) - Len(sub)) : SubSeq(s, i + 1, i + Len(sub)) = sub

RECURSIVE WordEnd(_, _)
\* the last position of the run of word characters that holds position i
WordEnd(s, i) == IF i = Len(s) \/ ~IsWordChar(s[i + 1]) THEN i ELSE WordEnd(s, i + 1)

\* set(re.findall(r'\b\w+\b', s)): the maximal runs of word characters
FindAllWords(s) ==
    LET starts == {i \in 1..Len(s) : IsWordChar(s[i]) /\ (i = 1 \/ ~IsWordChar(s[i - 1]))}
    IN  {SubSeq(s, i, WordEnd(s, i)) : i \in starts}

RECURSIVE SumLen(_)
\* sum(len(word) for word in words)
SumLen(words) ==
    IF words = {} THEN 0
    ELSE LET w == CHOOSE x \in words : TRUE
         IN  Len(w) + SumLen(words \ {w})

-----------------------------------------------------------------------------
(* Python dicts: records; {} is the record with no field.                   *)

EmptyDict == [k \in {} |-> ""]

\* dict.get(key, default)
Get(d, key, default) == IF key \in DOMAIN d THEN d[key] ELSE default

\* truthiness of a dict
Truthy(d) == DOMAIN d # {}

-----------------------------------------------------------------------------
(* The Code Matcher: scrape_ssw_tracking, lines 88-132.                     *)

\* the weight of an exact containment
ContainWeight == 100

ignore_words == {<<"D", "E">>, <<"D", "A">>, <<"D", "O">>, <<"P", "A", "R", "A">>,
    <<"C", "O", "M">>, <<"S", "E", "M">>, <<"P", "O", "R">>, <<"A", "O">>,
    <<"A">>, <<"O">>, <<"E">>}

\* re.sub(r'\s*\(.*?\)\s*\.?$', '', status_text).strip(): the match runs from the
\* leftmost "(" (and the blanks before it) that a ")" follows on the same line,
\* that ")" being followed by blanks and at most one "." up to the end of the text
\* (or up to its final line break).
StatusTextClean(text) ==
    LET tailOk(q) ==
            LET t == SubSeq(text, q + 1, Len(text))
                n == Len(t)
            IN  \/ AllSpace(t)
                \/ n >= 1 /\ t[n] = "." /\ AllSpace(SubSeq(t, 1, n - 1))
                \/ n >= 2 /\ t[n] = "\n" /\ t[n - 1] = "." /\ AllSpace(SubSeq(t, 1, n - 2))
        closes == {q \in 1..Len(text) : text[q] = ")" /\ tailOk(q)}
        opens == {p \in 1..Len(text) :
                    /\ text[p] = "("
                    /\ \E q \in closes : p < q /\ \A k \in (p + 1)..(q - 1) : text[k] # "\n"}
    IN  IF opens = {} THEN Strip(text)
        ELSE Strip(SubSeq(text, 1, (CHOOSE p \in opens : \A r \in opens : p <= r) - 1))

\* line 93
StatusTextUpper(text) == Upper(StatusTextClean(text))

\* lines 96-98
StatusKeywords(status_text_upper) == FindAllWords(status_text_upper) \ ignore_words

\* lines 108-127 with the stop words left in the description's keywords and the
\* status text's words
MatchScoreKeepStopWords(code, status_text_upper, status_keywords) ==
    LET description_upper == Upper(code.description)
    IN  IF Contains(description_upper, status_text_upper)
        THEN Len(description_upper) * ContainWeight
        ELSE IF Contains(status_text_upper, description_upper)
        THEN Len(status_text_upper) * ContainWeight
        ELSE SumLen(FindAllWords(status_text_upper) \cap FindAllWords(description_upper))

\* lines 108-127: the score of one catalog entry
MatchScore(code, status_text_upper, status_keywords) ==
    LET description_upper == Upper(code.description)
    IN  IF Contains(description_upper, status_text_upper)
        THEN Len(description_upper) * ContainWeight
        ELSE IF Contains(status_text_upper, description_upper)
        THEN Len(status_text_upper) * ContainWeight
        ELSE SumLen(status_keywords \cap (FindAllWords(description_upper) \ ignore_words))

RECURSIVE InsertByLenAscending(_, _)
\* the same sort without reverse=True: shorter descriptions first
InsertByLenAscending(code, sorted) ==
    IF sorted = <<>> THEN <<code>>
    ELSE IF Len(Head(sorted).description) > Len(code.description)
    THEN <<code>> \o sorted
    ELSE <<Head(sorted)>> \o InsertByLenAscending(code, Tail(sorted))

RECURSIVE InsertByLen(_, _)
\* where a stable sort on len(description), descending, puts `code` among the
\* entries that came before it
InsertByLen(code, sorted) ==
    IF sorted = <<>> THEN <<code>>
    ELSE IF Len(Head(sorted).description) < Len(code.description)
    THEN <<code>> \o sorted
    ELSE <<Head(sorted)>> \o InsertByLen(code, Tail(sorted))

RECURSIVE SortedCodes(_)
\* sorted(occurrence_codes, key=lambda x: len(x["description"]), reverse=True)
SortedCodes(codes) ==
    IF codes = <<>> THEN <<>>
    ELSE InsertByLen(codes[Len(codes)], SortedCodes(SubSeq(codes, 1, Len(codes) - 1)))

\* lines 101-105 sorting the caller's list in place (list.sort)
CodesAfterSortInPlace(codes) == SortedCodes(codes)

\* lines 101-105: sorted() builds a new list; the list given to the function is
\* left as it was
CodesAfterSort(codes) == codes

\* lines 129-132, with >= for > : an equal score replaces the current best
KeepBestOrEqual(best, code, match_score) ==
    IF match_score >= best.score THEN [code |-> code, score |-> match_score] ELSE best

\* lines 129-132: keep the best match
KeepBest(best, code, match_score) ==
    IF match_score > best.score THEN [code |-> code, score |-> match_score] ELSE best

RECURSIVE MatchLoop(_, _, _, _)
\* lines 107-132: for code in sorted_codes
MatchLoop(codes, best, status_text_upper, status_keywords) ==
    IF codes = <<>> THEN best
    ELSE MatchLoop(Tail(codes),
                   KeepBest(best, Head(codes),
                            MatchScore(Head(codes), status_text_upper, status_keywords)),
                   status_text_upper, status_keywords)

\* lines 88-132: occurrence_code and best_match_score after the loop
BestMatch(codes, text) ==
    LET status_text_upper == StatusTextUpper(text)
        status_keywords == StatusKeywords(status_text_upper)
    IN  MatchLoop(SortedCodes(codes), [code |-> EmptyDict, score |-> 0],
                  status_text_upper, status_keywords)

-----------------------------------------------------------------------------
(* The Status Mapper: scrape_ssw_tracking, lines 134-170.                   *)

s_entrega == <<"e", "n", "t", "r", "e", "g", "a">>
s_finalizadora == <<"f", "i", "n", "a", "l", "i", "z", "a", "d", "o", "r", "a">>
s_devolucao == <<"d", "e", "v", "o", "l", "u", "ç", "ã", "o">>
s_baixa == <<"b", "a", "i", "x", "a">>
s_preentrega == <<"p", "r", "é", "e", "n", "t", "r", "e", "g", "a">>
s_reentrega == <<"r", "e", "e", "n", "t", "r", "e", "g", "a">>
s_agendamento == <<"a", "g", "e", "n", "d", "a", "m", "e", "n", "t", "o">>
s_pendencia == <<"p", "e", "n", "d", "ê", "n", "c", "i", "a">>
s_operacional == <<"o", "p", "e", "r", "a", "c", "i", "o", "n", "a", "l">>
s_coleta == <<"c", "o", "l", "e", "t", "a">>
s_geral == <<"g", "e", "r", "a", "l">>
s_informativa == <<"i", "n", "f", "o", "r", "m", "a", "t", "i", "v", "a">>

\* lines 141-170 with the 'type' rules moved before the 'process' rules
StatusOfTypeFirst(occ_type, occ_process) ==
    IF occ_type = s_baixa THEN "cancelled"
    ELSE IF occ_type = s_preentrega THEN "out_for_delivery"
    ELSE IF Contains(s_pendencia, occ_type) THEN "held"
    ELSE IF occ_process = s_entrega THEN "delivered"
    ELSE IF occ_process = s_finalizadora THEN "delivered"
    ELSE IF occ_process = s_devolucao THEN "returned"
    ELSE IF occ_process = s_reentrega THEN "failed_delivery"
    ELSE IF occ_process = s_agendamento THEN "awaiting_pickup"
    ELSE "in_transit"

\* lines 141-170: the if/elif chain over the lowercased attributes
StatusOf(occ_type, occ_process) ==
    IF occ_process = s_entrega THEN "delivered"
    ELSE IF occ_process = s_finalizadora THEN "delivered"
    ELSE IF occ_process = s_devolucao THEN "returned"
    ELSE IF occ_type = s_baixa THEN "cancelled"
    ELSE IF occ_type = s_preentrega THEN "out_for_delivery"
    ELSE IF occ_process = s_reentrega THEN "failed_delivery"
    ELSE IF occ_process = s_agendamento THEN "awaiting_pickup"
    ELSE IF Contains(s_pendencia, occ_type) THEN "held"
    ELSE IF occ_process \in {s_operacional, s_coleta, s_geral} THEN "in_transit"
    ELSE IF occ_type = s_informativa THEN "in_transit"
    ELSE "in_transit"

\* lines 136-170: event_status for a matched code, or for {}
MapStatus(code) ==
    IF Truthy(code)
    THEN StatusOf(Lower(Get(code, "type", <<>>)), Lower(Get(code, "process", <<>>)))
    ELSE "in_transit"

\* src/test_scraping.py, lines 94-117: the if/elif chain of the test suite's mapper
TestStatusOf(occ_type, occ_process) ==
    IF occ_process = s_entrega THEN "delivered"
    ELSE IF occ_process = s_finalizadora THEN "delivered"
    ELSE IF occ_process = s_devolucao THEN "returned"
    ELSE IF occ_type = s_baixa THEN "cancelled"
    ELSE IF occ_type = s_preentrega THEN "out_for_delivery"
    ELSE IF Contains(s_pendencia, occ_type)
    THEN (IF occ_process = s_reentrega THEN "failed_delivery" ELSE "held")
    ELSE IF occ_type = s_informativa THEN "in_transit"
    ELSE "in_transit"

\* src/test_scraping.py, lines 82-119
map_occurrence_type_to_status(occurrence_code_) ==
    IF Truthy(occurrence_code_)
    THEN TestStatusOf(Lower(Get(occurrence_code_, "type", <<>>)),
                      Lower(Get(occurrence_code_, "process", <<>>)))
    ELSE "in_transit"

-----------------------------------------------------------------------------
(* The Event Extractor: scrape_ssw_tracking, lines 47-82 and 172-199.       *)

\* Python's None where a text is expected, and where a dict is expected
NoneStr == <<"None">>

NoneDict == [none |-> TRUE]

DigitSeq == <<"0", "1", "2", "3", "4", "5", "6", "7", "8", "9">>

\* int() of one digit
DigitVal(c) == (CHOOSE i \in DOMAIN DigitSeq : DigitSeq[i] = c) - 1

\* int() of two digits
TwoDigits(s, i) == DigitVal(s[i]) * 10 + DigitVal(s[i + 1])

RECURSIVE ToDigits(_)
\* str() of a natural number
ToDigits(n) == IF n < 10 THEN <<DigitSeq[n + 1]>> ELSE ToDigits(n \div 10) \o <<DigitSeq[(n % 10) + 1]>>

\* \d{4} at position i
FourDigitsAt(s, i) == i + 3 <= Len(s) /\ \A k \in i..(i + 3) : IsDigit(s[k])

\* \d{2}/\d{2}/\d{2} at position i
DatePatternAt(s, i) ==
    /\ i + 7 <= Len(s)
    /\ \A k \in {i, i + 1, i + 3, i + 4, i + 6, i + 7} : IsDigit(s[k])
    /\ s[i + 2] = "/" /\ s[i + 5] = "/"

\* \d{2}:\d{2} at position i
TimePatternAt(s, i) ==
    /\ i + 4 <= Len(s)
    /\ \A k \in {i, i + 1, i + 3, i + 4} : IsDigit(s[k])
    /\ s[i + 2] = ":"

\* the least element of a non-empty set of positions
Least(S) == CHOOSE i \in S : \A j \in S : i <= j

\* lines 59-60: re.search(r"(\d{4})", unit_text)
UnitOf(unit_text) ==
    LET at == {i \in 1..Len(unit_text) : FourDigitsAt(unit_text, i)}
    IN  IF at = {} THEN NoneStr ELSE SubSeq(unit_text, Least(at), Least(at) + 3)

\* line 68: re.sub(r'\s*/\s*$', '', location).strip()
StripTrailingSeparator(location) ==
    IF location # <<>> /\ location[Len(location)] = "/"
    THEN Strip(SubSeq(location, 1, Len(location) - 1))
    ELSE Strip(location)

\* lines 64-70: re.match(r"^(.+?)(?=\d{2}/\d{2}/\d{2})", location_datetime): the
\* shortest non-empty prefix, on the first line, that a date pattern follows
LocationOf(location_datetime) ==
    LET ends == {k \in 1..Len(location_datetime) :
                    /\ DatePatternAt(location_datetime, k + 1)
                    /\ \A j \in 1..k : location_datetime[j] # "\n"}
    IN  IF ends = {} THEN NoneStr
        ELSE StripTrailingSeparator(Strip(SubSeq(location_datetime, 1, Least(ends))))

\* lines 73-74: the first date pattern and the first time pattern, 0 when absent
DateMatch(location_datetime) ==
    LET at == {i \in 1..Len(location_datetime) : DatePatternAt(location_datetime, i)}
    IN  IF at = {} THEN 0 ELSE Least(at)

TimeMatch(location_datetime) ==
    LET at == {i \in 1..Len(location_datetime) : TimePatternAt(location_datetime, i)}
    IN  IF at = {} THEN 0 ELSE Least(at)

\* %y of datetime.strptime: 00-68 are 2000-2068, 69-99 are 1969-1999
FullYear(yy) == IF yy <= 68 THEN 2000 + yy ELSE 1900 + yy

DaysInMonth(month, year) ==
    IF month \in {4, 6, 9, 11} THEN 30
    ELSE IF month = 2
    THEN (IF year % 4 = 0 /\ (year % 100 # 0 \/ year % 400 = 0) THEN 29 ELSE 28)
    ELSE 31

\* lines 80-82: whether datetime.strptime(..., "%d/%m/%y %H:%M") accepts the
\* date at position d and the time at position t (it raises ValueError otherwise)
StrptimeAccepts(s, d, t) ==
    LET day == TwoDigits(s, d)
        month == TwoDigits(s, d + 3)
        year == FullYear(TwoDigits(s, d + 6))
    IN  /\ month \in 1..12
        /\ day >= 1 /\ day <= DaysInMonth(month, year)
        /\ TwoDigits(s, t) <= 23
        /\ TwoDigits(s, t + 3) <= 59

\* line 179: occurred_at.isoformat(), YYYY-MM-DDTHH:MM:00
IsoFormat(s, d, t) ==
    ToDigits(FullYear(TwoDigits(s, d + 6))) \o <<"-">> \o SubSeq(s, d + 3, d + 4) \o <<"-">>
        \o SubSeq(s, d, d + 1) \o <<"T">> \o SubSeq(s, t, t + 4) \o <<":", "0", "0">>

\* lines 54-181 skipping a block whose status text matched no code (a
\* "continue" when occurrence_code is empty, before line 172)
ProcessTripleSkipUnmatched(unit_text, location_datetime, text, codes) ==
    LET d == DateMatch(location_datetime)
        t == TimeMatch(location_datetime)
    IN  IF d = 0 \/ t = 0 THEN [kind |-> "skip"]
        ELSE IF ~StrptimeAccepts(location_datetime, d, t) THEN [kind |-> "raise"]
        ELSE IF \E i \in 1..Len(codes) : "description" \notin DOMAIN codes[i]
        THEN [kind |-> "raise"]
        ELSE LET code == BestMatch(codes, text).code
             IN  IF ~Truthy(code) THEN [kind |-> "skip"]
                 ELSE [kind |-> "event",
                       event |-> [occurrence_code |-> Get(code, "code", ""),
                                  status |-> MapStatus(code),
                                  description |-> Get(code, "description", <<>>),
                                  location |-> LocationOf(location_datetime),
                                  unit |-> UnitOf(unit_text),
                                  occurred_at |-> IsoFormat(location_datetime, d, t)]]

\* lines 54-181: what one triple of fragments gives: an event, nothing (no date or
\* no time), or an exception (strptime's ValueError, or the KeyError of a catalog
\* entry without description)
ProcessTriple(unit_text, location_datetime, text, codes) ==
    LET d == DateMatch(location_datetime)
        t == TimeMatch(location_datetime)
    IN  IF d = 0 \/ t = 0 THEN [kind |-> "skip"]
        ELSE IF ~StrptimeAccepts(location_datetime, d, t) THEN [kind |-> "raise"]
        ELSE IF \E i \in 1..Len(codes) : "description" \notin DOMAIN codes[i]
        THEN [kind |-> "raise"]
        ELSE LET code == BestMatch(codes, text).code
             IN  [kind |-> "event",
                  event |-> [occurrence_code |-> Get(code, "code", ""),
                             status |-> MapStatus(code),
                             description |-> Get(code, "description", <<>>),
                             location |-> LocationOf(location_datetime),
                             unit |-> UnitOf(unit_text),
                             occurred_at |-> IsoFormat(location_datetime, d, t)]]

\* lines 52-53: the starts (1-based) of the complete triples of n fragments
TripleStarts(n) == {i \in 1..n : (i - 1) % 3 = 0 /\ i + 2 <= n}

RECURSIVE EventsFromReversed(_, _, _)
\* lines 49-181 with every event put before the earlier ones (events.insert(0, ...))
EventsFromReversed(fragments, i, codes) ==
    IF i \notin TripleStarts(Len(fragments)) THEN <<>>
    ELSE LET r == ProcessTriple(fragments[i], fragments[i + 1], fragments[i + 2], codes)
         IN  EventsFromReversed(fragments, i + 3, codes)
                \o (IF r.kind = "event" THEN <<r.event>> ELSE <<>>)

RECURSIVE EventsFrom(_, _, _)
\* lines 49-181: the events of the triples from fragment i on, in document order
EventsFrom(fragments, i, codes) ==
    IF i \notin TripleStarts(Len(fragments)) THEN <<>>
    ELSE LET r == ProcessTriple(fragments[i], fragments[i + 1], fragments[i + 2], codes)
         IN  (IF r.kind = "event" THEN <<r.event>> ELSE <<>>) \o EventsFrom(fragments, i + 3, codes)

\* whether processing the page raises
PageRaises(fragments, codes) ==
    \E i \in TripleStarts(Len(fragments)) :
        ProcessTriple(fragments[i], fragments[i + 1], fragments[i + 2], codes).kind = "raise"

\* line 185 taking the last event for the first one
CurrentStatusOfLast(events) == IF events # <<>> THEN events[Len(events)].status ELSE "pending"

\* line 185: current_status = events[0]["status"] if events else "pending"
CurrentStatus(events) == IF events # <<>> THEN events[1].status ELSE "pending"

\* raise_for_status(): a 2xx status passes
IsSuccess(status) == status >= 200 /\ status <= 299

\* lines 31-203: what scrape_ssw_tracking returns for the carrier's response: the
\* page is given as the texts of its <p class="tdb"> paragraphs
ScrapeResult(cnpj, invoice_number, response, codes) ==
    IF response.kind # "response" \/ ~IsSuccess(response.status) THEN NoneDict
    ELSE IF PageRaises(response.fragments, codes) THEN NoneDict
    ELSE LET events == EventsFrom(response.fragments, 1, codes)
         IN  IF events # <<>>
             THEN [tracking_code |-> NoneStr,
                   invoice_number |-> invoice_number,
                   document |-> cnpj,
                   carrier |-> "SSW",
                   current_status |-> CurrentStatus(events),
                   events |-> events,
                   last_update |-> "now"]
             ELSE NoneDict

-----------------------------------------------------------------------------
(* The inputs: status fragments as the carrier page gives them, and catalog *)
(* entries as GET /tracking-updates/occurrence-codes returns them.          *)

d_mercadoria_entregue == <<"m", "e", "r", "c", "a", "d", "o", "r", "i", "a", " ", "e", "n", "t",
    "r", "e", "g", "u", "e">>
d_entrega_ressalva == <<"e", "n", "t", "r", "e", "g", "a", " ", "r", "e", "a", "l", "i", "z",
    "a", "d", "a", " ", "c", "o", "m", " ", "r", "e", "s", "s", "a", "l", "v", "a">>
d_saida_para_entrega == <<"s", "a", "i", "d", "a", " ", "p", "a", "r", "a", " ", "e", "n", "t",
    "r", "e", "g", "a">>
d_local_para_entrega == <<"l", "o", "c", "a", "l", " ", "p", "a", "r", "a", " ", "e", "n", "t",
    "r", "e", "g", "a">>
d_entrega == <<"e", "n", "t", "r", "e", "g", "a">>
d_a == <<"a">>
d_Entrega_Fechado == <<"E", "n", "t", "r", "e", "g", "a", " ", "F", "e", "c", "h", "a", "d",
    "o">>
t_mercadoria_entregue == <<"M", "E", "R", "C", "A", "D", "O", "R", "I", "A", " ", "E", "N", "T",
    "R", "E", "G", "U", "E", " ", " ", "(", "S", "S", "W", " ", "W", "e", "b", "A", "P", "I",
    " ", "P", "a", "r", "c", "e", "i", "r", "o", ")", ".">>
t_entrega_normalmente == <<"E", "N", "T", "R", "E", "G", "A", " ", "R", "E", "A", "L", "I", "Z",
    "A", "D", "A", " ", "N", "O", "R", "M", "A", "L", "M", "E", "N", "T", "E", " ", "(", "S",
    "S", "W", " ", "W", "e", "b", "A", "P", "I", ")">>
t_entrega_realizada == <<"E", "N", "T", "R", "E", "G", "A", " ", "R", "E", "A", "L", "I", "Z",
    "A", "D", "A">>
t_reentrega == <<"R", "E", "E", "N", "T", "R", "E", "G", "A", " ", "A", "O", " ", "C", "L", "I",
    "E", "N", "T", "E">>
t_desconhecido == <<"E", "V", "E", "N", "T", "O", " ", "D", "E", "S", "C", "O", "N", "H", "E",
    "C", "I", "D", "O">>
t_only_note == <<"(", "S", "S", "W", ")">>
t_saida_para_entrega == <<"S", "A", "I", "D", "A", " ", "P", "A", "R", "A", " ", "E", "N", "T",
    "R", "E", "G", "A">>
t_lower == <<"E", "n", "t", "r", "e", "g", "a", " ", "e", "m", " ", "a", "n", "d", "a", "m", "e",
    "n", "t", "o">>
t_coleta_para == <<"C", "O", "L", "E", "T", "A", " ", "P", "A", "R", "A", " ", "T", "R", "A", "N",
    "S", "P", "O", "R", "T", "E">>
y_pend_cliente == <<"p", "e", "n", "d", "ê", "n", "c", "i", "a", " ", "c", "l", "i", "e", "n",
    "t", "e">>
y_pend_transp == <<"P", "e", "n", "d", "ê", "n", "c", "i", "a", " ", "T", "r", "a", "n", "s",
    "p", "o", "r", "t", "a", "d", "o", "r", "a">>
y_BAIXA == <<"B", "A", "I", "X", "A">>
p_ENTREGA == <<"E", "N", "T", "R", "E", "G", "A">>
p_Devolucao == <<"D", "e", "v", "o", "l", "u", "ç", "ã", "o">>
p_outro == <<"o", "u", "t", "r", "o">>

\* a word longer than the weight of a containment, and texts built on it
LongWord == [i \in 1..(ContainWeight + 1) |-> "X"]
d_long == LongWord \o <<" ", "z", "z">>
t_long == <<"A", " ">> \o LongWord

StatusTexts == {<<>>, t_mercadoria_entregue, t_entrega_normalmente, t_entrega_realizada,
    t_reentrega, t_desconhecido, t_only_note, t_saida_para_entrega, t_lower, t_coleta_para,
    t_long}

e_1 == [code |-> "1", description |-> d_mercadoria_entregue, type |-> s_entrega, process |-> s_entrega]

e_85 == [code |-> "85", description |-> d_saida_para_entrega, type |-> s_informativa, process |-> s_operacional]

Entries == {
    e_1,
    [code |-> "37", description |-> d_entrega_ressalva, type |-> y_pend_transp, process |-> p_ENTREGA],
    e_85,
    [code |-> "86", description |-> d_local_para_entrega, type |-> y_pend_cliente, process |-> s_reentrega],
    [code |-> "5", description |-> d_entrega, type |-> y_BAIXA, process |-> s_geral],
    [code |-> "0", description |-> <<>>, type |-> s_informativa, process |-> s_entrega],
    [code |-> "7", description |-> d_a],
    [code |-> "9", description |-> d_long, type |-> s_preentrega, process |-> s_agendamento],
    [code |-> "11", description |-> d_Entrega_Fechado, type |-> y_pend_cliente, process |-> p_outro]}

SeqsUpTo(S, n) == UNION {[1..k -> S] : k \in 0..n}

Catalogs == SeqsUpTo(Entries, MaxCatalog)

\* the values of the two classification attributes
Types == {s_entrega, s_baixa, y_BAIXA, s_preentrega, y_pend_cliente, y_pend_transp,
    s_informativa, <<>>}

Processes == {s_entrega, p_ENTREGA, s_finalizadora, s_devolucao, p_Devolucao, s_reentrega,
    s_agendamento, s_operacional, s_coleta, s_geral, p_outro, <<>>}

\* entries with every pair of attributes, and with an attribute absent
MapEntries ==
    {[code |-> "c", description |-> d_entrega, type |-> t, process |-> p] :
        t \in Types, p \in Processes}
    \cup {[code |-> "c", description |-> d_entrega, type |-> t] : t \in Types}
    \cup {[code |-> "c", description |-> d_entrega, process |-> p] : p \in Processes}
    \cup {[code |-> "c", description |-> d_entrega]}

-----------------------------------------------------------------------------
(* update_tracking_via_api, get_pending_shipments and the summary.          *)

NoTrackingDataFound == <<"N", "o", " ", "t", "r", "a", "c", "k", "i", "n", "g", " ", "d", "a",
    "t", "a", " ", "f", "o", "u", "n", "d">>
HttpPrefix == <<"H", "T", "T", "P", " ">>
m_timeout == <<"t", "i", "m", "e", "d", " ", "o", "u", "t">>
m_json == <<"E", "x", "p", "e", "c", "t", "i", "n", "g", " ", "v", "a", "l", "u", "e", ":", " ",
    "l", "i", "n", "e", " ", "1", " ", "c", "o", "l", "u", "m", "n", " ", "1", " ", "(", "c",
    "h", "a", "r", " ", "0", ")">>
b_short == <<"d", "e", "t", "a", "i", "l", ":", " ", "I", "n", "v", "a", "l", "i", "d", " ", "p",
    "a", "y", "l", "o", "a", "d">>
b_nodata == <<"d", "e", "t", "a", "i", "l", ":", " ", "N", "o", " ", "t", "r", "a", "c", "k",
    "i", "n", "g", " ", "d", "a", "t", "a", " ", "f", "o", "u", "n", "d">>

\* line 240: error_detail[:200]
BodyLimit == 200

b_long == [i \in 1..(BodyLimit + 1) |-> "x"]

\* s[:n]
Take(s, n) == SubSeq(s, 1, IF Len(s) < n THEN Len(s) ELSE n)

\* lines 211-248 without raise_for_status(): any response with a JSON body is a success
UpdateResultNoRaise(data, response) ==
    IF response.kind = "network_error"
    THEN [success |-> FALSE, invoice_number |-> data.invoice_number, error |-> response.message]
    ELSE IF ~response.decodes
    THEN [success |-> FALSE, invoice_number |-> data.invoice_number, error |-> m_json]
    ELSE [success |-> TRUE, invoice_number |-> data.invoice_number, result |-> response.json]

\* lines 211-248: the result update_tracking_via_api returns for the API's response
UpdateResult(data, response) ==
    IF response.kind = "network_error"
    THEN [success |-> FALSE, invoice_number |-> data.invoice_number, error |-> response.message]
    ELSE IF ~IsSuccess(response.status)
    THEN [success |-> FALSE, invoice_number |-> data.invoice_number,
          error |-> HttpPrefix \o ToDigits(response.status) \o <<":", " ">>
                        \o Take(response.text, BodyLimit)]
    ELSE IF ~response.decodes
    THEN [success |-> FALSE, invoice_number |-> data.invoice_number, error |-> m_json]
    ELSE [success |-> TRUE, invoice_number |-> data.invoice_number, result |-> response.json]

\* lines 356-362 with the first shipment's invoice number
NoDataResultFirstInvoice(shipment) ==
    [success |-> FALSE, invoice_number |-> pending_shipments[1].invoice_number,
     error |-> NoTrackingDataFound]

\* lines 356-362: the result recorded when the scrape returned nothing
NoDataResult(shipment) ==
    [success |-> FALSE, invoice_number |-> shipment.invoice_number, error |-> NoTrackingDataFound]

\* lines 284-290 returning a list of one blank shipment for the empty list
PendingOfBlankOnFailure(response) ==
    IF response.kind = "network_error" \/ ~IsSuccess(response.status) \/ ~response.decodes
    THEN <<[cnpj |-> "", invoice_number |-> 0]>>
    ELSE [k \in 1..Len(response.json) |->
            [cnpj |-> response.json[k].document,
             invoice_number |-> response.json[k].invoice_number]]

\* lines 257-290: the list get_pending_shipments returns for the API's response
PendingOf(response) ==
    IF response.kind = "network_error" \/ ~IsSuccess(response.status) \/ ~response.decodes
    THEN <<>>
    ELSE [k \in 1..Len(response.json) |->
            [cnpj |-> response.json[k].document,
             invoice_number |-> response.json[k].invoice_number]]

\* lines 326-328 without the early return: an empty list goes through the loop
\* to the summary
AfterPendingNoEarlyReturn(pending) == IF pending = <<>> THEN "summary" ELSE "scrape"

\* lines 326-333: an empty work list ends the run (return []), any other starts
\* the loop
AfterPending(pending) == IF pending = <<>> THEN "done" ELSE "scrape"

\* lines 306-320: whether the catalog request ends in the except branch
CatalogFetchRaises(response) ==
    response.kind = "network_error" \/ ~IsSuccess(response.status) \/ ~response.decodes

\* line 320 issuing the catalog request again
CatalogFailureRetries == "fetch_codes"

\* line 320 falling through to the pending-shipments fetch
CatalogFailureContinues == "fetch_pending"

\* line 320: return []
CatalogFailurePc == "done"

\* line 333 leaving the loop at the first failed result
LoopNextStopOnFailure(i, n, result) == IF i < n /\ result.success THEN "scrape" ELSE "summary"

\* line 333 passing over every other shipment of the list
NextIndexSkipsOne(i) == i + 2

\* line 333: the for loop takes the shipments of the list one after the other
NextIndex(i) == i + 1

\* line 333 with a failed result ending the run at once, before the summary (an
\* exception escaping the loop)
LoopNextCrashOnFailure(i, n, result) ==
    IF ~result.success THEN "done" ELSE IF i < n THEN "scrape" ELSE "summary"

\* line 333: the for loop goes on to the next shipment whatever the result
LoopNext(i, n, result) == IF i < n THEN "scrape" ELSE "summary"

\* line 365: if r["success"]
IsSuccessful(r) == r.success

\* lines 366-370: if not r["success"] and "No tracking data found" in r.get("error", "")
IsNoData(r) == ~r.success /\ Contains(NoTrackingDataFound, Get(r, "error", <<>>))

\* line 365: sum(1 for r in results if r["success"])
CountSuccessful(rs) == Cardinality({k \in 1..Len(rs) : IsSuccessful(rs[k])})

\* lines 366-370 counting every failed result as one without data
CountEveryFailure(rs) == Cardinality({k \in 1..Len(rs) : ~rs[k].success})

\* lines 366-370: sum(1 for r in results if not r["success"] and ...)
CountNoData(rs) == Cardinality({k \in 1..Len(rs) : IsNoData(rs[k])})

-----------------------------------------------------------------------------
(* The responses of the carrier site and of the internal API.               *)

u_1234 == <<"1", "2", "3", "4">>
loc_rj == <<"R", "I", "O", " ", "D", "E", " ", "J", "A", "N", "E", "I", "R", "O", " ", "/", " ",
    "R", "J", "1", "8", "/", "1", "1", "/", "2", "5", "\n", "1", "6", ":", "3", "5">>
loc_sp == <<"S", "A", "O", " ", "P", "A", "U", "L", "O", " ", "/", " ", "S", "P", "2", "1", "/",
    "1", "1", "/", "2", "5", "\n", "0", "9", ":", "4", "5">>
loc_nodate == <<"S", "A", "O", " ", "P", "A", "U", "L", "O", " ", "/", " ", "S", "P">>

\* the texts of the <p class="tdb"> paragraphs of a page
Pages == {
    <<>>,
    <<u_1234, loc_rj, t_mercadoria_entregue>>,
    <<u_1234, loc_rj, t_saida_para_entrega, u_1234, loc_sp, t_mercadoria_entregue, u_1234>>,
    <<u_1234, loc_nodate, t_saida_para_entrega>>}

CarrierResponses ==
    {[kind |-> "response", status |-> 200, fragments |-> p] : p \in Pages}
    \cup {[kind |-> "response", status |-> 500, fragments |-> <<>>],
          [kind |-> "network_error", message |-> m_timeout]}

RunCatalogs == {<<>>, <<e_85, e_1>>}

CatalogResponses ==
    {[kind |-> "response", status |-> 200, decodes |-> TRUE, json |-> c] : c \in RunCatalogs}
    \cup {[kind |-> "response", status |-> 200, decodes |-> FALSE],
          [kind |-> "response", status |-> 401, decodes |-> TRUE],
          [kind |-> "network_error", message |-> m_timeout]}

\* the k-th pending shipment of the internal API
Shipment(k) == [document |-> "12345678000190", invoice_number |-> 1000 + k, status |-> "pending"]

PendingResponses ==
    {[kind |-> "response", status |-> 200, decodes |-> TRUE,
      json |-> [k \in 1..n |-> Shipment(k)]] : n \in 0..MaxShipments}
    \cup {[kind |-> "response", status |-> 200, decodes |-> FALSE],
          [kind |-> "response", status |-> 503, decodes |-> TRUE],
          [kind |-> "network_error", message |-> m_timeout]}

SubmitResponses == {
    [kind |-> "response", status |-> 200, text |-> <<>>, decodes |-> TRUE,
     json |-> [success |-> TRUE]],
    [kind |-> "response", status |-> 204, text |-> <<>>, decodes |-> FALSE],
    [kind |-> "response", status |-> 422, text |-> b_short, decodes |-> TRUE,
     json |-> [detail |-> "Invalid payload"]],
    [kind |-> "response", status |-> 404, text |-> b_nodata, decodes |-> TRUE,
     json |-> [detail |-> "No tracking data found"]],
    [kind |-> "response", status |-> 500, text |-> b_long, decodes |-> FALSE],
    [kind |-> "network_error", message |-> m_timeout]}

-----------------------------------------------------------------------------
(* sync_ssw_tracking, lines 293-382.                                        *)

MatchIdle ==
    /\ status_text = <<>>
    /\ occurrence_code = EmptyDict
    /\ best_match_score = 0
    /\ event_status = "none"
    /\ mpc = "idle"

RunIdle ==
    /\ pc = "idle"
    /\ pending_shipments = <<>>
    /\ idx = 0
    /\ tracking_data = NoneDict
    /\ results = <<>>
    /\ returned = <<>>
    /\ successful = 0
    /\ no_data = 0
    /\ failed = 0
    /\ calls = <<>>

Init ==
    /\ MatchIdle
    /\ occurrence_codes = <<>>
    /\ pc = "fetch_codes"
    /\ pending_shipments = <<>>
    /\ idx = 0
    /\ tracking_data = NoneDict
    /\ results = <<>>
    /\ returned = <<>>
    /\ successful = 0
    /\ no_data = 0
    /\ failed = 0
    /\ calls = <<>>

\* lines 304-320: fetch the occurrence codes, once; a failure ends the run
FetchOccurrenceCodes ==
    /\ pc = "fetch_codes"
    /\ \E response \in CatalogResponses :
        /\ calls' = Append(calls, [op |-> "catalog", idx |-> 0, response |-> response])
        /\ IF CatalogFetchRaises(response)
           THEN /\ pc' = CatalogFailurePc
                /\ UNCHANGED occurrence_codes
           ELSE /\ pc' = "fetch_pending"
                /\ occurrence_codes' = response.json
    /\ UNCHANGED <<mvars, pending_shipments, idx, tracking_data, results, returned, successful,
                   no_data, failed>>

\* lines 322-330: get_pending_shipments(); an empty list ends the run
GetPendingShipments ==
    /\ pc = "fetch_pending"
    /\ \E response \in PendingResponses :
        /\ calls' = Append(calls, [op |-> "pending", idx |-> 0, response |-> response])
        /\ pending_shipments' = PendingOf(response)
        /\ pc' = AfterPending(PendingOf(response))
        /\ idx' = IF PendingOf(response) = <<>> THEN idx ELSE 1
    /\ UNCHANGED <<occurrence_codes, mvars, tracking_data, results, returned, successful,
                   no_data, failed>>

\* lines 333-341: scrape_ssw_tracking for the current shipment
ScrapeSswTracking ==
    /\ pc = "scrape"
    /\ \E response \in CarrierResponses :
        /\ calls' = Append(calls, [op |-> "scrape", idx |-> idx, response |-> response])
        /\ tracking_data' = ScrapeResult(pending_shipments[idx].cnpj,
                                         pending_shipments[idx].invoice_number,
                                         response, occurrence_codes)
    /\ occurrence_codes' = CodesAfterSort(occurrence_codes)
    /\ pc' = "record"
    /\ UNCHANGED <<mvars, pending_shipments, idx, results, returned, successful, no_data, failed>>

\* lines 343-353: update_tracking_via_api(tracking_data) and its result
UpdateTrackingViaApi ==
    /\ pc = "record"
    /\ tracking_data # NoneDict
    /\ \E response \in SubmitResponses :
        /\ calls' = Append(calls, [op |-> "submit", idx |-> idx, response |-> response])
        /\ results' = Append(results, UpdateResult(tracking_data, response))
        /\ pc' = LoopNext(idx, Len(pending_shipments), UpdateResult(tracking_data, response))
    /\ idx' = NextIndex(idx)
    /\ UNCHANGED <<occurrence_codes, mvars, pending_shipments, tracking_data, returned,
                   successful, no_data, failed>>

\* lines 354-362: no tracking data for the current shipment
RecordNoData ==
    /\ pc = "record"
    /\ tracking_data = NoneDict
    /\ results' = Append(results, NoDataResult(pending_shipments[idx]))
    /\ pc' = LoopNext(idx, Len(pending_shipments), NoDataResult(pending_shipments[idx]))
    /\ idx' = NextIndex(idx)
    /\ UNCHANGED <<occurrence_codes, mvars, pending_shipments, tracking_data, returned,
                   successful, no_data, failed, calls>>

\* lines 364-382: the summary, and return results
Summarize ==
    /\ pc = "summary"
    /\ successful' = CountSuccessful(results)
    /\ no_data' = CountNoData(results)
    /\ failed' = Len(results) - CountSuccessful(results) - CountNoData(results)
    /\ returned' = results
    /\ pc' = "done"
    /\ UNCHANGED <<occurrence_codes, mvars, pending_shipments, idx, tracking_data, results,
                   calls>>

Next ==
    \/ FetchOccurrenceCodes
    \/ GetPendingShipments
    \/ ScrapeSswTracking
    \/ UpdateTrackingViaApi
    \/ RecordNoData
    \/ Summarize

Spec == Init /\ [][Next]_vars

\* every request carries timeout=10.0 (lines 32, 212, 258, 307), so each step
\* of the run returns or raises and the next one is taken
SpecFair == Init /\ [][Next]_vars /\ WF_vars(Next)

-----------------------------------------------------------------------------
(* The per-event block of scrape_ssw_tracking, lines 84-170.                *)

InitMatch ==
    /\ status_text \in StatusTexts
    /\ occurrence_codes \in Catalogs
    /\ occurrence_code = EmptyDict
    /\ best_match_score = 0
    /\ event_status = "none"
    /\ mpc = "start"
    /\ RunIdle

\* one catalog entry (or none) for each pair of attributes, matched by the text
InitMap ==
    /\ status_text = t_entrega_realizada
    /\ occurrence_codes \in {<<>>} \cup {<<c>> : c \in MapEntries}
    /\ occurrence_code = EmptyDict
    /\ best_match_score = 0
    /\ event_status = "none"
    /\ mpc = "start"
    /\ RunIdle

\* lines 88-132
MatchCode ==
    /\ mpc = "start"
    /\ LET best == BestMatch(occurrence_codes, status_text)
       IN  /\ occurrence_code' = best.code
           /\ best_match_score' = best.score
    /\ mpc' = "matched"
    /\ UNCHANGED <<status_text, occurrence_codes, event_status, rvars>>

\* lines 134-170
MapEvent ==
    /\ mpc = "matched"
    /\ event_status' = MapStatus(occurrence_code)
    /\ mpc' = "mapped"
    /\ UNCHANGED <<status_text, occurrence_codes, occurrence_code, best_match_score, rvars>>

NextMatch == MatchCode \/ MapEvent

SpecMatch == InitMatch /\ [][NextMatch]_vars

SpecMap == InitMap /\ [][NextMatch]_vars

-----------------------------------------------------------------------------
(* scrape_ssw_tracking called for one shipment, over pages built of triples *)
(* of fragments, lines 21-203.                                              *)

MaxTriples == 2

u_5678 == <<"5", "6", "7", "8">>
u_none == <<"R", "J">>
loc_baddate == <<"S", "A", "O", " ", "P", "A", "U", "L", "O", " ", "/", " ", "S", "P", "3", "1",
    "/", "0", "2", "/", "2", "5", "\n", "0", "9", ":", "4", "5">>
loc_double_sep == <<"S", "A", "O", " ", "P", "A", "U", "L", "O", " ", "/", " ", "/", "2", "1",
    "/", "1", "1", "/", "2", "5", "\n", "0", "9", ":", "4", "5">>
loc_notime == <<"R", "I", "O", " ", "D", "E", " ", "J", "A", "N", "E", "I", "R", "O", " ", "/",
    " ", "R", "J", "1", "8", "/", "1", "1", "/", "2", "5">>
loc_date_first == <<"1", "8", "/", "1", "1", "/", "2", "5", " ", "1", "6", ":", "3", "5">>
c_ssw == <<" ", " ", "(", "S", "S", "W", " ", "W", "e", "b", "A", "P", "I", " ", "P", "a", "r",
    "c", "e", "i", "r", "o", ")", ".">>
c_recebida == <<"M", "E", "R", "C", "A", "D", "O", "R", "I", "A", " ", "R", "E", "C", "E", "B",
    "I", "D", "A", " ", "P", "A", "R", "A", " ", "T", "R", "A", "N", "S", "P", "O", "R", "T",
    "E">>
c_saida_unidade == <<"S", "A", "I", "D", "A", " ", "D", "E", " ", "U", "N", "I", "D", "A", "D",
    "E">>
c_chegada == <<"C", "H", "E", "G", "A", "D", "A", " ", "N", "A", " ", "U", "N", "I", "D", "A",
    "D", "E">>
d_recebida == <<"m", "e", "r", "c", "a", "d", "o", "r", "i", "a", " ", "r", "e", "c", "e", "b",
    "i", "d", "a", " ", "p", "a", "r", "a", " ", "t", "r", "a", "n", "s", "p", "o", "r", "t",
    "e">>
d_saida_unidade == <<"s", "a", "i", "d", "a", " ", "d", "e", " ", "u", "n", "i", "d", "a", "d",
    "e">>
d_chegada == <<"c", "h", "e", "g", "a", "d", "a", " ", "n", "a", " ", "u", "n", "i", "d", "a",
    "d", "e">>

\* catalog entries of the carrier's operational occurrences
e_80 == [code |-> "80", description |-> d_recebida, type |-> s_informativa, process |-> s_operacional]

e_82 == [code |-> "82", description |-> d_saida_unidade, type |-> s_informativa, process |-> s_operacional]

e_84 == [code |-> "84", description |-> d_chegada, type |-> s_informativa, process |-> s_operacional]

MockCatalog == <<e_1, e_85, e_84, e_82, e_80>>

\* a page of five well-formed triples, from pickup to delivery in document order
SimulationPage == <<
    u_1234, loc_rj, c_recebida \o c_ssw,
    u_1234, loc_rj, c_saida_unidade \o c_ssw,
    u_5678, loc_sp, c_chegada \o c_ssw,
    u_5678, loc_sp, t_saida_para_entrega \o c_ssw,
    u_5678, loc_sp, t_mercadoria_entregue>>

\* triples: two well-formed ones, one without a date, one with a date that is
\* not a calendar date, one with a doubled separator and an unknown status, one
\* without a time, one that starts with its date
Triples == {
    <<u_1234, loc_rj, t_mercadoria_entregue>>,
    <<u_5678, loc_sp, t_saida_para_entrega>>,
    <<u_none, loc_nodate, t_saida_para_entrega>>,
    <<u_1234, loc_baddate, t_saida_para_entrega>>,
    <<u_5678, loc_double_sep, t_desconhecido>>,
    <<u_1234, loc_notime, t_mercadoria_entregue>>,
    <<u_none, loc_date_first, t_desconhecido>>}

\* an incomplete group of fragments at the end of a page
Tails == {<<>>, <<u_1234>>, <<u_1234, loc_rj>>}

RECURSIVE Flatten(_)
\* the fragments of a sequence of triples
Flatten(ts) == IF ts = <<>> THEN <<>> ELSE ts[1] \o Flatten(Tail(ts))

ScrapePages ==
    {Flatten(ts) \o tail : ts \in SeqsUpTo(Triples, MaxTriples), tail \in Tails}
    \cup {SimulationPage}

ScrapeCatalogs == {<<>>, <<e_85, e_1>>, MockCatalog}

ScrapeResponses ==
    {[kind |-> "response", status |-> 200, fragments |-> p] : p \in ScrapePages}
    \cup {[kind |-> "response", status |-> 500, fragments |-> <<>>],
          [kind |-> "network_error", message |-> m_timeout]}

InitScrape ==
    /\ MatchIdle
    /\ occurrence_codes \in ScrapeCatalogs
    /\ pc = "scrape"
    /\ pending_shipments = <<[cnpj |-> Shipment(1).document,
                              invoice_number |-> Shipment(1).invoice_number]>>
    /\ idx = 1
    /\ tracking_data = NoneDict
    /\ results = <<>>
    /\ returned = <<>>
    /\ successful = 0
    /\ no_data = 0
    /\ failed = 0
    /\ calls = <<>>

\* lines 21-203: one call of scrape_ssw_tracking
ScrapeTask ==
    /\ pc = "scrape"
    /\ \E response \in ScrapeResponses :
        /\ calls' = Append(calls, [op |-> "scrape", idx |-> idx, response |-> response])
        /\ tracking_data' = ScrapeResult(pending_shipments[idx].cnpj,
                                         pending_shipments[idx].invoice_number,
                                         response, occurrence_codes)
    /\ occurrence_codes' = CodesAfterSort(occurrence_codes)
    /\ pc' = "scraped"
    /\ UNCHANGED <<mvars, pending_shipments, idx, results, returned, successful, no_data, failed>>

SpecScrape == InitScrape /\ [][ScrapeTask]_vars

-----------------------------------------------------------------------------
(* Properties of the Code Matcher and the Status Mapper.                    *)

\* the score line 108-127 gives a catalog entry against the current status text
EntryScore(code) ==
    MatchScore(code, StatusTextUpper(status_text), StatusKeywords(StatusTextUpper(status_text)))

\* the entry matches by exact containment of a non-empty string
ContainmentMatch(code) ==
    LET du == Upper(code.description)
        su == StatusTextUpper(status_text)
    IN  \/ du # <<>> /\ Contains(du, su)
        \/ su # <<>> /\ Contains(su, du)

\* the significant words the entry's description shares with the status text
SharedKeywords(code) ==
    (FindAllWords(StatusTextUpper(status_text)) \ ignore_words)
        \cap (FindAllWords(Upper(code.description)) \ ignore_words)

CatalogIndices == 1..Len(occurrence_codes)

\* the lowercased attributes of the matched code
MatchedType == Lower(Get(occurrence_code, "type", <<>>))

MatchedProcess == Lower(Get(occurrence_code, "process", <<>>))

\* C5: the mapped status is that of the first matching rule, in the order process
\* entrega, finalizadora, devolução, then type baixa, préentrega, then process
\* reentrega, agendamento, then type containing pendência, else in_transit; with
\* no matched code or absent attributes it is in_transit; process entrega gives
\* delivered whatever the type. Attributes are compared case-insensitively.
C5_FirstMatchingRule ==
    mpc = "mapped" =>
        LET ty == MatchedType
            pr == MatchedProcess
            final == {s_entrega, s_finalizadora, s_devolucao}
            early == {s_baixa, s_preentrega}
            attempt == {s_reentrega, s_agendamento}
        IN  /\ occurrence_code = EmptyDict => event_status = "in_transit"
            /\ pr = s_entrega => event_status = "delivered"
            /\ pr = s_finalizadora => event_status = "delivered"
            /\ pr = s_devolucao => event_status = "returned"
            /\ pr \notin final /\ ty = s_baixa => event_status = "cancelled"
            /\ pr \notin final /\ ty = s_preentrega => event_status = "out_for_delivery"
            /\ pr \notin final /\ ty \notin early /\ pr = s_reentrega
                    => event_status = "failed_delivery"
            /\ pr \notin final /\ ty \notin early /\ pr = s_agendamento
                    => event_status = "awaiting_pickup"
            /\ pr \notin final \cup attempt /\ ty \notin early /\ Contains(s_pendencia, ty)
                    => event_status = "held"
            /\ pr \notin final \cup attempt /\ ty \notin early /\ ~Contains(s_pendencia, ty)
                    => event_status = "in_transit"

\* a code of type "Pendência Transportadora"-like and process entrega, written in
\* upper case, was mapped to delivered
C5_Witness ==
    /\ mpc = "mapped"
    /\ Truthy(occurrence_code)
    /\ Get(occurrence_code, "process", <<>>) = p_ENTREGA
    /\ Contains(s_pendencia, MatchedType)
    /\ event_status = "delivered"

\* C6: the matcher selects a catalog entry whose score is strictly positive, or
\* none; an entry whose score is zero (an empty description, or any entry when
\* the cleaned status text is empty) is never selected.
C6_PositiveScoreOrNone ==
    mpc # "start" =>
        \/ occurrence_code = EmptyDict /\ best_match_score = 0
        \/ /\ \E i \in CatalogIndices : occurrence_codes[i] = occurrence_code
           /\ EntryScore(occurrence_code) > 0
           /\ best_match_score = EntryScore(occurrence_code)

\* a catalog whose entries all score zero against a status text that cleans to
\* the empty text: none was selected
C6_Witness ==
    /\ mpc = "matched"
    /\ status_text # <<>>
    /\ StatusTextClean(status_text) = <<>>
    /\ Len(occurrence_codes) = MaxCatalog
    /\ \E i \in CatalogIndices : occurrence_codes[i].description = <<>>
    /\ \E i \in CatalogIndices : occurrence_codes[i].description # <<>>
    /\ occurrence_code = EmptyDict

\* C7: if some entry matches by exact containment, its score is strictly greater
\* than that of every entry that matches by word overlap only, so the selected
\* entry is a containment match.
C7_ContainmentOutranksOverlap ==
    mpc = "matched" =>
        /\ \A i, j \in CatalogIndices :
                ContainmentMatch(occurrence_codes[i]) /\ ~ContainmentMatch(occurrence_codes[j])
                    => EntryScore(occurrence_codes[i]) > EntryScore(occurrence_codes[j])
        /\ (\E i \in CatalogIndices : ContainmentMatch(occurrence_codes[i]))
                => Truthy(occurrence_code) /\ ContainmentMatch(occurrence_code)

\* the greatest score over the catalog
MaxScore ==
    IF occurrence_codes = <<>> THEN 0
    ELSE LET scores == {EntryScore(occurrence_codes[i]) : i \in CatalogIndices}
         IN  CHOOSE m \in scores : \A n \in scores : n <= m

\* the entries that reach the greatest score, and the longest descriptions' among them
TopIndices == {i \in CatalogIndices : EntryScore(occurrence_codes[i]) = MaxScore}

LongestTopIndices ==
    {i \in TopIndices : \A j \in TopIndices :
        Len(occurrence_codes[j].description) <= Len(occurrence_codes[i].description)}

\* C8: the selected entry has the maximum score over the catalog; among the
\* entries of that score the one with the longest description is selected, and
\* among those of equal length the first in catalog order.
C8_MaxScoreLongestFirst ==
    mpc = "matched" /\ MaxScore > 0 =>
        /\ best_match_score = MaxScore
        /\ occurrence_code =
                occurrence_codes[CHOOSE i \in LongestTopIndices : \A j \in LongestTopIndices : i <= j]

\* two different entries of equal score and equal description length, and a
\* shorter one of the same score or none: the earlier of the two was selected
C8_Witness ==
    /\ mpc = "matched"
    /\ MaxScore > 0
    /\ \E i, j \in LongestTopIndices :
            /\ i < j
            /\ occurrence_codes[i] # occurrence_codes[j]
            /\ occurrence_code = occurrence_codes[i]

\* C9 as stated: when no catalog entry shares a significant word with the status
\* text, there is no match and the status is in_transit.
C9_NoSharedWordNoMatch ==
    mpc = "mapped" /\ (\A i \in CatalogIndices : SharedKeywords(occurrence_codes[i]) = {})
        => occurrence_code = EmptyDict /\ event_status = "in_transit"

\* C9 amended: when no catalog entry shares a significant word with the status
\* text and none contains, or is contained in, the cleaned upper-case status text
\* as a non-empty string, there is no match and the status is in_transit.
C9_NoSharedWordNoContainment ==
    mpc = "mapped"
    /\ (\A i \in CatalogIndices :
            /\ SharedKeywords(occurrence_codes[i]) = {}
            /\ ~ContainmentMatch(occurrence_codes[i]))
        => occurrence_code = EmptyDict /\ best_match_score = 0 /\ event_status = "in_transit"

\* a status text and an entry that share a stop word only: no match
C9_Witness ==
    /\ mpc = "mapped"
    /\ \A i \in CatalogIndices :
            /\ SharedKeywords(occurrence_codes[i]) = {}
            /\ ~ContainmentMatch(occurrence_codes[i])
    /\ \E i \in CatalogIndices :
            FindAllWords(StatusTextUpper(status_text))
                \cap FindAllWords(Upper(occurrence_codes[i].description)) # {}
    /\ occurrence_code = EmptyDict
    /\ event_status = "in_transit"

-----------------------------------------------------------------------------
(* Properties of the run.                                                   *)

\* the positions in the history of the requests of one kind for shipment k
CallsFor(op, k) == {j \in 1..Len(calls) : calls[j].op = op /\ calls[j].idx = k}

\* the response to the (only) request of one kind for shipment k
ResponseFor(op, k) == calls[CHOOSE j \in CallsFor(op, k) : TRUE].response

\* a network error or a non-2xx answer
RequestFailed(response) == response.kind = "network_error" \/ ~IsSuccess(response.status)

\* the scrape failed, or its page gave no event
ScrapeGaveNothing(response) ==
    \/ RequestFailed(response)
    \/ PageRaises(response.fragments, occurrence_codes)
    \/ EventsFrom(response.fragments, 1, occurrence_codes) = <<>>

\* the shipments whose scrape has been answered
Scraped == {k \in 1..Len(pending_shipments) : CallsFor("scrape", k) # {}}

SoftFailure(k) ==
    [success |-> FALSE, invoice_number |-> pending_shipments[k].invoice_number,
     error |-> NoTrackingDataFound]

\* the run went through the whole work list
RunCompleted ==
    /\ Len(results) = Len(pending_shipments)
    /\ \A k \in 1..Len(pending_shipments) :
            /\ Cardinality(CallsFor("scrape", k)) = 1
            /\ results[k].invoice_number = pending_shipments[k].invoice_number

\* C1: when the catalog fetch fails (network error or non-2xx) the run ends there:
\* no pending-shipments fetch, no scrape, no submission, and no shipment result.
C1_CatalogFailureAborts ==
    calls # <<>> /\ RequestFailed(calls[1].response) =>
        /\ Len(calls) = 1
        /\ calls[1].op = "catalog"
        /\ pc = "done"
        /\ pending_shipments = <<>>
        /\ results = <<>>
        /\ returned = <<>>

\* the catalog request was answered 401 and the run is over
C1_Witness ==
    /\ pc = "done"
    /\ Len(calls) = 1
    /\ calls[1].op = "catalog"
    /\ calls[1].response.kind = "response"
    /\ ~IsSuccess(calls[1].response.status)
    /\ returned = <<>>

\* the result of shipment k as its own two responses decide it
OwnResult(k) ==
    IF ScrapeGaveNothing(ResponseFor("scrape", k)) THEN SoftFailure(k)
    ELSE UpdateResult(ScrapeResult(pending_shipments[k].cnpj, pending_shipments[k].invoice_number,
                                   ResponseFor("scrape", k), occurrence_codes),
                      ResponseFor("submit", k))

\* C2: whatever the outcomes, every shipment of the work list is processed and
\* gets a result, which its own scrape and submission alone decide; there are as
\* many soft-failure results as scrapes that gave nothing.
C2_EveryShipmentGetsItsResult ==
    pc = "done" /\ pending_shipments # <<>> =>
        /\ RunCompleted
        /\ \A k \in 1..Len(pending_shipments) : results[k] = OwnResult(k)
        /\ Cardinality({k \in 1..Len(results) : results[k] = SoftFailure(k)})
                = Cardinality({k \in Scraped : ScrapeGaveNothing(ResponseFor("scrape", k))})

\* a full work list whose first scrape alone failed, by a network error: one
\* soft failure, and the last shipment updated
C2_Witness ==
    /\ pc = "done"
    /\ Len(pending_shipments) = MaxShipments
    /\ Len(results) = MaxShipments
    /\ ResponseFor("scrape", 1).kind = "network_error"
    /\ {k \in 1..Len(results) : results[k] = SoftFailure(k)} = {1}
    /\ results[MaxShipments].success

\* C3: a shipment whose scrape failed or gave no event gets exactly the result
\* {success: false, invoice_number, error: "No tracking data found"}, no
\* submission is made for it, and the loop goes on.
C3_SoftFailureRecorded ==
    /\ \A k \in Scraped :
            ScrapeGaveNothing(ResponseFor("scrape", k)) =>
                /\ CallsFor("submit", k) = {}
                /\ k <= Len(results) => results[k] = SoftFailure(k)
                /\ k = idx /\ pc = "record" => tracking_data = NoneDict
    /\ pc = "done" /\ pending_shipments # <<>> => RunCompleted

\* the first shipment's page was served but gave no event, and the run went on
\* to update the next shipment
C3_Witness ==
    /\ pc = "done"
    /\ Len(results) >= 2
    /\ ~RequestFailed(ResponseFor("scrape", 1))
    /\ ResponseFor("scrape", 1).fragments # <<>>
    /\ results[1] = SoftFailure(1)
    /\ results[2].success

\* the shipments whose scrape gave events and whose submission has been answered
Submitted ==
    {k \in Scraped : ~ScrapeGaveNothing(ResponseFor("scrape", k)) /\ k <= Len(results)}

\* "HTTP <status>: <the first 200 characters of the body>"
HttpErrorText(response) ==
    <<"H", "T", "T", "P", " ">> \o ToDigits(response.status) \o <<":", " ">>
        \o SubSeq(response.text, 1, IF Len(response.text) > 200 THEN 200 ELSE Len(response.text))

\* C4 as stated: for a shipment whose scrape gave events exactly one submission is
\* made; the result has success=true when the API answers 2xx, and success=false
\* with "HTTP <status>: <truncated body>" when it answers non-2xx; the run goes on.
C4_SuccessOnAny2xx ==
    /\ \A k \in Submitted :
            LET response == ResponseFor("submit", k)
            IN  /\ Cardinality(CallsFor("submit", k)) = 1
                /\ response.kind = "response" /\ IsSuccess(response.status)
                        => results[k].success
                /\ response.kind = "response" /\ ~IsSuccess(response.status)
                        => ~results[k].success /\ Get(results[k], "error", <<>>) = HttpErrorText(response)
    /\ pc = "done" /\ pending_shipments # <<>> => RunCompleted

\* C4 amended: success=true when the API answers 2xx with a body that decodes as
\* JSON; success=false with "HTTP <status>: <truncated body>" on a non-2xx
\* answer; success=false with the exception's text when the request fails in
\* transport or the 2xx body does not decode; in every case the run goes on.
C4_SuccessOn2xxJson ==
    /\ \A k \in Submitted :
            LET response == ResponseFor("submit", k)
            IN  /\ Cardinality(CallsFor("submit", k)) = 1
                /\ results[k].invoice_number = pending_shipments[k].invoice_number
                /\ response.kind = "response" /\ IsSuccess(response.status) /\ response.decodes
                        => results[k].success
                /\ response.kind = "response" /\ ~IsSuccess(response.status)
                        => ~results[k].success /\ Get(results[k], "error", <<>>) = HttpErrorText(response)
                /\ response.kind = "response" /\ IsSuccess(response.status) /\ ~response.decodes
                        => ~results[k].success /\ Get(results[k], "error", <<>>) = m_json
                /\ response.kind = "network_error"
                        => ~results[k].success /\ Get(results[k], "error", <<>>) = response.message
    /\ pc = "done" /\ pending_shipments # <<>> => RunCompleted

\* the first submission was answered 500 with a body longer than the limit, its
\* result holds the truncated text, and the second submission succeeded
C4_Witness ==
    /\ pc = "done"
    /\ {1, 2} \subseteq Submitted
    /\ ResponseFor("submit", 1).kind = "response"
    /\ ~IsSuccess(ResponseFor("submit", 1).status)
    /\ Len(ResponseFor("submit", 1).text) > BodyLimit
    /\ Len(Get(results[1], "error", <<>>)) = 5 + 3 + 2 + BodyLimit
    /\ results[2].success

C24_TestMapperAgrees ==
    mpc = "mapped" => event_status = map_occurrence_type_to_status(occurrence_code)

-----------------------------------------------------------------------------
(* Properties of one scrape.                                                *)

\* the scrape has been answered with a page
PageServed ==
    /\ pc = "scraped"
    /\ ~RequestFailed(ResponseFor("scrape", 1))

\* the fragments of the page the scrape was answered with
ServedFragments == ResponseFor("scrape", 1).fragments

\* what the k-th triple (from 0) of the fragments gives
TripleAt(fragments, k) ==
    ProcessTriple(fragments[3 * k + 1], fragments[3 * k + 2], fragments[3 * k + 3],
                  occurrence_codes)

\* the triples (from 0) of the fragments
TripleIndices(fragments) == 0..((Len(fragments) \div 3) - 1)

\* consecutive well-formed triples and nothing else
AllWellFormed(fragments) ==
    /\ fragments # <<>>
    /\ Len(fragments) % 3 = 0
    /\ \A k \in TripleIndices(fragments) : TripleAt(fragments, k).kind = "event"

\* the delivery is the last triple of the page, and only that one
DeliveryLast(fragments) ==
    /\ fragments[Len(fragments)] = t_mercadoria_entregue
    /\ \A k \in TripleIndices(fragments) :
            3 * k + 3 < Len(fragments) => TripleAt(fragments, k).event.status # "delivered"

\* C11: a page of consecutive well-formed triples, from pickup to delivery, whose
\* last triple reads "MERCADORIA ENTREGUE" gives one event per triple, and the
\* first event's status, hence current_status, is delivered.
C11_DeliveryLastIsCurrent ==
    PageServed /\ occurrence_codes = MockCatalog /\ AllWellFormed(ServedFragments)
        /\ DeliveryLast(ServedFragments) =>
            /\ tracking_data # NoneDict
            /\ Len(tracking_data.events) = Len(ServedFragments) \div 3
            /\ tracking_data.events[1].status = "delivered"
            /\ tracking_data.current_status = "delivered"

\* the text before the first date pattern of a location+time fragment
BeforeDate(location_datetime) ==
    SubSeq(location_datetime, 1, DateMatch(location_datetime) - 1)

\* a text with no space at either end and no '/' at its end
IsClean(location) ==
    location = <<>> \/
        /\ ~IsSpace(location[1])
        /\ ~IsSpace(location[Len(location)])
        /\ location[Len(location)] # "/"

\* C13: the extracted location is the text before the first date pattern, trimmed
\* and without a trailing '/' separator, and cleaning it again changes nothing.
C13_LocationCleanAndIdempotent ==
    PageServed /\ AllWellFormed(ServedFragments) =>
        \A k \in TripleIndices(ServedFragments) :
            LET location == tracking_data.events[k + 1].location
                before == BeforeDate(ServedFragments[3 * k + 2])
            IN  /\ IsClean(location)
                /\ \E i \in 0..Len(before) : location = SubSeq(before, 1, i)
                /\ StripTrailingSeparator(Strip(location)) = location

\* a location+time fragment with a date and a time that parse
WellFormedBlock(location_datetime) ==
    /\ DateMatch(location_datetime) # 0
    /\ TimeMatch(location_datetime) # 0
    /\ StrptimeAccepts(location_datetime, DateMatch(location_datetime),
                       TimeMatch(location_datetime))

\* the triples (from 0) of the fragments whose block is well formed
WellFormedTriples(fragments) ==
    {k \in TripleIndices(fragments) : WellFormedBlock(fragments[3 * k + 2])}

\* C18: a block whose location+time fragment lacks a parsable date or time drops
\* only its own event: every well-formed block of the page still gives its
\* event, and the scrape gives no tracking data only when no block is well formed.
C18_MalformedBlockDropsOnlyItself ==
    PageServed =>
        /\ WellFormedTriples(ServedFragments) = {} <=> tracking_data = NoneDict
        /\ WellFormedTriples(ServedFragments) # {} =>
                Len(tracking_data.events) = Cardinality(WellFormedTriples(ServedFragments))

\* the triples (from 0) of the fragments that give an event
KeptTriples(fragments) ==
    {k \in TripleIndices(fragments) : TripleAt(fragments, k).kind = "event"}

\* the j-th (from 1) of a set of numbers, in increasing order
NthOf(S, j) == CHOOSE k \in S : Cardinality({i \in S : i < k}) = j - 1

\* C19: of n fragments the extractor considers the n \div 3 consecutive triples
\* and discards a trailing group of one or two; the events of the update are the
\* events of those triples, each built of the fragments of one triple, in
\* document order, none twice.
C19_EventsFollowTriples ==
    PageServed /\ tracking_data # NoneDict =>
        LET kept == KeptTriples(ServedFragments)
        IN  /\ Len(tracking_data.events) = Cardinality(kept)
            /\ Cardinality(kept) <= Len(ServedFragments) \div 3
            /\ \A j \in 1..Len(tracking_data.events) :
                    LET k == NthOf(kept, j)
                    IN  /\ tracking_data.events[j] = TripleAt(ServedFragments, k).event
                        /\ tracking_data.events[j].unit = UnitOf(ServedFragments[3 * k + 1])
                        /\ tracking_data.events[j].location
                                = LocationOf(ServedFragments[3 * k + 2])

\* a page of two triples and a trailing group of two fragments gave two
\* different events
C19_Witness ==
    /\ PageServed
    /\ Len(ServedFragments) = 8
    /\ tracking_data # NoneDict
    /\ Len(tracking_data.events) = 2
    /\ tracking_data.events[1].unit # tracking_data.events[2].unit
    /\ tracking_data.events[1].location # tracking_data.events[2].location

\* no entry of the catalog scores above zero for the status text
NoCodeMatches(text) ==
    \A i \in 1..Len(occurrence_codes) :
        MatchScore(occurrence_codes[i], StatusTextUpper(text),
                   StatusKeywords(StatusTextUpper(text))) = 0

-----------------------------------------------------------------------------
(* Properties of the run, continued.                                        *)

\* the update that was submitted for shipment k
SubmittedData(k) ==
    ScrapeResult(pending_shipments[k].cnpj, pending_shipments[k].invoice_number,
                 ResponseFor("scrape", k), occurrence_codes)

\* C12: in every shipment update that is submitted, if any event of its events
\* list has status delivered then its current_status is delivered.
C12_DeliveredEventIsCurrent ==
    \A k \in Submitted :
        (\E j \in 1..Len(SubmittedData(k).events) :
                SubmittedData(k).events[j].status = "delivered")
            => SubmittedData(k).current_status = "delivered"

\* C14: the catalog is fetched exactly once, before the pending-shipments fetch
\* and before any scrape, and is never modified afterwards: whatever was
\* processed since, it is the list the fetch returned, in the same order.
C14_CatalogFetchedOnceReadOnly ==
    /\ \A j \in 1..Len(calls) : calls[j].op = "catalog" <=> j = 1
    /\ calls # <<>> /\ ~CatalogFetchRaises(calls[1].response)
            => occurrence_codes = calls[1].response.json

\* the run is over: every shipment of a full work list was scraped against a
\* catalog of two entries, the last one from a page of two events
C14_Witness ==
    /\ pc = "done"
    /\ Len(results) = MaxShipments
    /\ Len(calls[1].response.json) = 2
    /\ occurrence_codes = calls[1].response.json
    /\ ~ScrapeGaveNothing(ResponseFor("scrape", MaxShipments))
    /\ Len(SubmittedData(MaxShipments).events) = 2

\* the results that succeeded, those that failed for lack of tracking data, and
\* the other failures
SucceededIn(rs) == {k \in 1..Len(rs) : rs[k].success}

LackedDataIn(rs) ==
    {k \in 1..Len(rs) : ~rs[k].success /\ "error" \in DOMAIN rs[k]
                            /\ Contains(NoTrackingDataFound, rs[k].error)}

OtherFailedIn(rs) == (1..Len(rs)) \ (SucceededIn(rs) \cup LackedDataIn(rs))

\* C15: the summary counts every result in exactly one of successful, no-data and
\* other-failed, so the counts are non-negative and sum to the number of results;
\* and it changes nothing: the run returns the results list as it was.
C15_SummaryPartitions ==
    [][pc = "summary" =>
        /\ successful' = Cardinality(SucceededIn(results))
        /\ no_data' = Cardinality(LackedDataIn(results))
        /\ failed' = Cardinality(OtherFailedIn(results))
        /\ successful' >= 0 /\ no_data' >= 0 /\ failed' >= 0
        /\ successful' + no_data' + failed' = Len(results)
        /\ results' = results
        /\ returned' = results
        /\ UNCHANGED <<occurrence_codes, pending_shipments, calls>>]_vars

\* a summary of two results: one without data, one other failure
C15_Witness ==
    /\ pc = "done"
    /\ Len(returned) = 2
    /\ successful = 0
    /\ no_data = 1
    /\ failed = 1

\* C16: when the pending-shipments fetch returns an empty list the run ends there
\* with nothing processed: no scrape, no submission, and empty results.
C16_EmptyWorkListEndsRun ==
    Len(calls) >= 2 /\ PendingOf(calls[2].response) = <<>> =>
        /\ pc = "done"
        /\ Len(calls) = 2
        /\ pending_shipments = <<>>
        /\ results = <<>>
        /\ returned = <<>>
        /\ successful = 0 /\ no_data = 0 /\ failed = 0

\* the catalog was fetched, the pending-shipments request was answered 200 with
\* an empty list, and the run is over
C16_Witness ==
    /\ pc = "done"
    /\ Len(calls) = 2
    /\ calls[2].op = "pending"
    /\ calls[2].response.kind = "response"
    /\ calls[2].response.status = 200
    /\ calls[2].response.decodes
    /\ calls[2].response.json = <<>>
    /\ returned = <<>>

\* line 328: what a run that found no pending shipment returns
EmptyWorkListOutcome == <<>>

\* C17: when the catalog fetch fails, what the run returns is a fatal signal: it
\* differs from what a run that succeeded with an empty work list returns.
C17_CatalogFailureDistinguishable ==
    pc = "done" /\ calls # <<>> /\ CatalogFetchRaises(calls[1].response) =>
        returned # EmptyWorkListOutcome

\* C21 as stated: every run terminates, and every run that did not abort on the
\* catalog fetch ends by producing the summary.
C21_SummaryUnlessCatalogFails ==
    /\ <>(pc = "done")
    /\ (pc = "fetch_pending") ~> (pc = "summary")

\* C21 amended: every run terminates; every run that found at least one pending
\* shipment produces the summary and then ends; a run whose work list is empty
\* ends without a summary.
C21_SummaryWhenWorkListNotEmpty ==
    /\ <>[](pc = "done")
    /\ (pc = "scrape") ~> (pc = "summary")
    /\ (pc = "summary") ~> (pc = "done" /\ returned = results
                                /\ successful + no_data + failed = Len(results))
    /\ [][pc = "fetch_pending" /\ pending_shipments' = <<>> => pc' = "done"]_vars

\* a run over a full work list ended with its summary, one shipment updated
C21_Witness ==
    /\ pc = "done"
    /\ Len(pending_shipments) = MaxShipments
    /\ Len(returned) = MaxShipments
    /\ successful >= 1
    /\ successful + no_data + failed = MaxShipments

\* the request was not answered: a connect failure or a timeout
TransientError(response) == response.kind = "network_error"

C23_SequentialInListOrder ==
    /\ \A j \in 1..Len(calls) :
            /\ calls[j].op = "catalog" <=> j = 1
            /\ calls[j].op = "pending" <=> j = 2
            /\ calls[j].op = "scrape" =>
                    /\ calls[j].idx = Cardinality({i \in 1..j : calls[i].op = "scrape"})
                    /\ calls[j].idx \in 1..Len(pending_shipments)
            /\ calls[j].op = "submit" =>
                    /\ calls[j - 1].op = "scrape"
                    /\ calls[j - 1].idx = calls[j].idx
                    /\ ~ScrapeGaveNothing(calls[j - 1].response)
    /\ pc = "scrape" => Len(results) = idx - 1 /\ Scraped = 1..(idx - 1)
    /\ pc = "record" => Len(results) = idx - 1 /\ Scraped = 1..idx
    /\ pc = "done" /\ pending_shipments # <<>> => RunCompleted

\* a full work list was processed: the first shipment scraped and submitted, then
\* the last one scraped
C23_Witness ==
    /\ pc = "done"
    /\ Len(pending_shipments) = MaxShipments
    /\ RunCompleted
    /\ Len(calls) >= 5
    /\ calls[3].op = "scrape" /\ calls[3].idx = 1
    /\ calls[4].op = "submit" /\ calls[4].idx = 1
    /\ calls[5].op = "scrape" /\ calls[5].idx = 2
    /\ calls[Len(calls)].idx = MaxShipments

\* C25: in the summary, no_data is the number of shipments whose scrape gave no
\* tracking data and failed the number of shipments whose submission failed: a
\* failed submission is never counted as no-data, whatever its error text.
C25_CountsByCause ==
    pc = "done" /\ pending_shipments # <<>> =>
        /\ no_data = Cardinality({k \in Scraped : ScrapeGaveNothing(ResponseFor("scrape", k))})
        /\ failed = Cardinality({k \in Submitted : ~results[k].success})

\* C26: a failure of the pending-shipments fetch (network error or non-2xx) is
\* not fatal and raises nothing: get_pending_shipments returns an empty list and
\* the run ends as one with no pending shipment: no scrape, no submission, empty
\* results.
C26_PendingFailureIsEmptyList ==
    Len(calls) >= 2 /\ RequestFailed(calls[2].response) =>
        /\ pending_shipments = PendingOf([kind |-> "response", status |-> 200,
                                          decodes |-> TRUE, json |-> <<>>])
        /\ pending_shipments = <<>>
        /\ pc = "done"
        /\ Len(calls) = 2
        /\ results = <<>>
        /\ returned = EmptyWorkListOutcome

\* the catalog was fetched, the pending-shipments request was answered 503, and
\* the run is over
C26_Witness ==
    /\ pc = "done"
    /\ Len(calls) = 2
    /\ calls[2].op = "pending"
    /\ calls[2].response.kind = "response"
    /\ calls[2].response.status = 503
    /\ pending_shipments = <<>>
    /\ returned = <<>>

=============================================================================
